---- MODULE Spec2Model ----
(***************************************************************************)
(* Model of Code/cluster.py: the word-stream decoder cluster_data and the  *)
(* calibration-table builder get_ADC_to_Ch.                                *)
(*                                                                         *)
(* Python containers are modelled as follows: a list or tuple is a         *)
(* sequence (Python position p is sequence position p + 1), a numpy array  *)
(* of length n is a sequence of length n, a dict is a function whose       *)
(* DOMAIN is the dict's key set.  An uncaught Python exception (IndexError *)
(* or KeyError) ends the call without a return value: pc = "failed".       *)
(***************************************************************************)
EXTENDS Integers, Sequences, FiniteSets, TLC

VARIABLES
    size,        \* cluster_data: len(data), the number of words to decode
    data,        \* cluster_data: the words of the tuple read so far
    window,      \* cluster_data: window.MG_CNCS.isChecked()
    calib,       \* cluster_data: which calibration table is passed as ADC_to_Ch
    events,      \* cluster_data: dict column name -> array of len(data) ints
    isOpen,      \* cluster_data: an event is open
    index,       \* cluster_data: row being written
    i,           \* cluster_data: position of the next word of enumerate(data)
    events_df,   \* cluster_data: the returned table (None until the return)
    pc,          \* cluster_data: "loop", "done", "failed", or "idle"
    lengths,           \* get_ADC_to_Ch: key -> len(delimiters_table[key])
    delimiters_table,  \* get_ADC_to_Ch: key -> the <<start, stop>> ranges read so far
    channel_mapping,   \* get_ADC_to_Ch: key -> sequence of channel ids
    ADC_to_Ch,         \* get_ADC_to_Ch: the dict being built, key -> dict
    keyPos,            \* get_ADC_to_Ch: position in delimiters_table.items()
    rangePos,          \* get_ADC_to_Ch: position i in enumerate(delimiters)
    pcCal              \* get_ADC_to_Ch: "loop", "done", "failed", or "idle"

clusterVars == <<size, data, window, calib, events, isOpen, index, i, events_df, pc>>
calVars == <<lengths, delimiters_table, channel_mapping, ADC_to_Ch, keyPos, rangePos, pcCal>>
vars == <<clusterVars, calVars>>

None == "None"

Range(s) == {s[p] : p \in DOMAIN s}

(***************************************************************************)
(* Bounds of the model.                                                    *)
(***************************************************************************)
MaxLen == 4        \* longest word stream decoded
MaxRanges == 2     \* most delimiter ranges per group

(***************************************************************************)
(* Masks, dictionary and bit shifts (cluster.py lines 15-44).              *)
(*                                                                         *)
(* A 32-bit word is the pair <<hi, lo>> of its upper and lower 16 bits     *)
(* (the word is hi * 2^16 + lo), so that every word of the full 32-bit     *)
(* range, signature bits included, is a value of the model.  A mask of     *)
(* contiguous bits is applied to each half by Bits.                        *)
(***************************************************************************)
Pow2(n) == 2 ^ n

Half == Pow2(16)

\* v & m for a 16-bit v and the mask m of `width` one-bits from bit `low` up.
Bits(v, low, width) == ((v \div Pow2(low)) % Pow2(width)) * Pow2(low)

SignatureMask(w) == <<Bits(w[1], 14, 2), 0>>                  \* w & 0xC0000000
\* Variant: the 5-bit channel mask applied to the Header's module field.
ModuleMaskFiveBits(w) == <<Bits(w[1], 0, 5), 0>>

ModuleMask(w) == <<Bits(w[1], 0, 8), 0>>                      \* w & 0x00FF0000
ChannelMask(w) == <<Bits(w[1], 0, 5), 0>>                     \* w & 0x001F0000
\* Variant: a 12-bit ADC mask.
ADCMaskTwelveBits(w) == <<0, Bits(w[2], 0, 12)>>

ADCMask(w) == <<0, Bits(w[2], 0, 14)>>                        \* w & 0x00003FFF
\* Variant: the 14-bit ADC mask applied to the EoE's timestamp field.
TimeStampMaskFourteenBits(w) == <<0, Bits(w[2], 0, 14)>>

TimeStampMask(w) == <<Bits(w[1], 0, 14), Bits(w[2], 0, 16)>>  \* w & 0x3FFFFFFF

Header == <<Pow2(14), 0>>                \* 0x40000000
Data == <<0, 0>>                         \* 0x00000000
EoE == <<3 * Pow2(14), 0>>               \* 0xC0000000

ChannelShift == 16
ModuleShift == 16

\* w >> n, for 0 <= n <= 16.
ShiftRight(w, n) ==
    <<w[1] \div Pow2(n), (w[1] % Pow2(n)) * Pow2(16 - n) + w[2] \div Pow2(n)>>

\* The integer a masked word is (below 2^31 for every field extracted).
Value(w) == w[1] * Half + w[2]

(***************************************************************************)
(* Layouts (cluster.py lines 85-94) and the columns of the events dict     *)
(* (lines 95-101).                                                         *)
(***************************************************************************)
\* Variant: the two layouts taken the other way round.
attributesSwapped(cncs) ==
    IF ~cncs
    THEN <<"wADC_1", "wADC_2", "wChADC_1", "wChADC_2",
           "gADC_1", "gADC_2", "gChADC_1", "gChADC_2">>
    ELSE <<"gADC_1", "gADC_2", "gChADC_1", "gChADC_2",
           "wADC_1", "wADC_2", "wChADC_1", "wChADC_2",
           "wADC_3", "wADC_4", "wChADC_3", "wChADC_4">>

attributes(cncs) ==
    IF cncs
    THEN <<"wADC_1", "wADC_2", "wChADC_1", "wChADC_2",
           "gADC_1", "gADC_2", "gChADC_1", "gChADC_2">>
    ELSE <<"gADC_1", "gADC_2", "gChADC_1", "gChADC_2",
           "wADC_1", "wADC_2", "wChADC_1", "wChADC_2",
           "wADC_3", "wADC_4", "wChADC_3", "wChADC_4">>

channels(cncs) ==
    IF cncs
    THEN <<"wCh_1", "wCh_2", "gCh_1", "gCh_2">>
    ELSE <<"wCh_1", "wCh_2", "wCh_3", "wCh_4", "gCh_1", "gCh_2">>

Columns(cncs) == {"Module", "ToF"} \cup Range(attributes(cncs)) \cup Range(channels(cncs))

zeros(n) == [r \in 1..n |-> 0]

NewEvents(cncs, n) == [key \in Columns(cncs) |-> zeros(n)]

\* Variant: the two groups taken the other way round.
wires_or_gridsSwapped == [w |-> "Grids", g |-> "Wires"]

wires_or_grids == [w |-> "Wires", g |-> "Grids"]

Keys == <<"Wires", "Grids">>

(***************************************************************************)
(* Python subscripting.  a[p] on a list, tuple or array raises IndexError  *)
(* unless 0 <= p < len(a) (negative positions never arise here); d[k] on   *)
(* a dict raises KeyError unless k is a key.                               *)
(***************************************************************************)
InBounds(a, p) == p >= 0 /\ p < Len(a)

Item(a, p) == a[p + 1]

SetItem(d, key, p, v) == [d EXCEPT ![key] = [@ EXCEPT ![p + 1] = v]]

\* Variant: a[0:n+1], one row too many.
PrefixOneMore(a, n) == IF n < Len(a) THEN SubSeq(a, 1, n + 1) ELSE a

Prefix(a, n) == SubSeq(a, 1, n)               \* a[0:n]

FirstChars(str, n) == SubSeq(str, 1, n)       \* str[0:n], str[:n]

LastChars(str, n) == SubSeq(str, Len(str) - n + 1, Len(str))   \* str[-n:]

(***************************************************************************)
(* get_ADC_to_Ch (cluster.py lines 162-187).                               *)
(*                                                                         *)
(* Delimiters and channel ids are integers here.  np.linspace(start, stop, *)
(* num) is kept exact: its element j is the rational                       *)
(* (start * (num-1) + j * (stop - start)) / (num-1), held as the pair      *)
(* <<numerator, denominator>> with denominator num-1 > 0.                  *)
(*                                                                         *)
(* A dict of ADC_to_Ch is held as the record [slots, set]: the keys        *)
(* 0..slots-1 of the comprehension of lines 168-169, each -1 unless        *)
(* assigned since, and the function `set` of the keys assigned by line 185 *)
(* with the value last assigned to each.  Keys and Get give the dict.      *)
(***************************************************************************)
layers_dict == [Wires |-> 16, Grids |-> 12]

Slots == 4096

Unmapped == -1

EmptyDict == [slots |-> Slots, set |-> [k \in {} |-> Unmapped]]   \* {i: -1 for i in range(4096)}

DictKeys(dict) == (0..(dict.slots - 1)) \cup DOMAIN dict.set

HasKey(dict, k) == (0 <= k /\ k < dict.slots) \/ k \in DOMAIN dict.set    \* k in dict

DictGet(dict, k) == IF k \in DOMAIN dict.set THEN dict.set[k] ELSE Unmapped

AssignedKeys(dict) == DOMAIN dict.set          \* the keys line 185 has assigned

EmptyTable == [Wires |-> EmptyDict, Grids |-> EmptyDict]

\* Variant: np.linspace(start, stop, num, endpoint=False).
linspaceOpen(start, stop, num) ==
    [p \in 1..num |-> <<start * num + (p - 1) * (stop - start), num>>]

linspace(start, stop, num) ==
    [p \in 1..num |-> <<start * (num - 1) + (p - 1) * (stop - start), num - 1>>]

\* Variant: a tie rounded away from zero (Python 2's round()).
roundAwayFromZero(q) ==
    IF q[1] >= 0
    THEN (2 * q[1] + q[2]) \div (2 * q[2])
    ELSE -((2 * (-q[1]) + q[2]) \div (2 * q[2]))

\* Python 3 round() of a float: to the nearest integer, a tie to the even one.
round(q) ==
    LET n == q[1]
        d == q[2]
        lower == n \div d               \* floor, d > 0
        rest == n % d                   \* 0 <= rest < d
    IN  IF 2 * rest < d THEN lower
        ELSE IF 2 * rest > d THEN lower + 1
        ELSE IF lower % 2 = 0 THEN lower ELSE lower + 1

\* Variant: the stop value included.
arangeClosed(start, stop) == start..stop

arange(start, stop) == start..(stop - 1)         \* np.arange(start, stop, 1)

\* Variant: a key assigned before keeps its value.
AssignIntervalKeepFirst(dict, start, stop, channel) ==
    [dict EXCEPT !.set = [k \in (DOMAIN @) \cup arange(start, stop) |->
                            IF k \in DOMAIN @ THEN @[k] ELSE channel]]

\* for k in np.arange(start, stop, 1): ADC_to_Ch[key][k] = channel
\* (an assignment to a key the dict lacks adds that key).
AssignInterval(dict, start, stop, channel) ==
    [dict EXCEPT !.set = [k \in (DOMAIN @) \cup arange(start, stop) |->
                            IF k \in arange(start, stop) THEN channel ELSE @[k]]]

\* Lines 179-186 from sub-interval j on, for range i: the dict after the
\* loop, and whether it ran to its end (ok) or raised IndexError on
\* channel_mapping[key][i*layers+j].
RECURSIVE SmallDelimiters(_, _, _, _, _, _)
SmallDelimiters(dict, mapping, small_delimiters, r, layers, j) ==
    IF j >= layers THEN [ok |-> TRUE, dict |-> dict]
    ELSE IF ~InBounds(mapping, r * layers + j) THEN [ok |-> FALSE, dict |-> dict]
    ELSE SmallDelimiters(
            AssignInterval(dict,
                           round(Item(small_delimiters, j)),
                           round(Item(small_delimiters, j + 1)),
                           Item(mapping, r * layers + j)),
            mapping, small_delimiters, r, layers, j + 1)

\* Lines 173-186 for range r = (start, stop) of one key.
DelimiterRange(dict, mapping, delimiter, r, layers) ==
    IF ~InBounds(mapping, r)                     \* line 175
    THEN [ok |-> FALSE, dict |-> dict]
    ELSE SmallDelimiters(dict, mapping,
                         linspace(delimiter[1], delimiter[2], layers + 1),
                         r, layers, 0)

\* Lines 170-186 for one key, from range r on.
RECURSIVE Delimiters(_, _, _, _, _)
Delimiters(dict, mapping, delimiters, r, layers) ==
    IF r >= Len(delimiters) THEN [ok |-> TRUE, dict |-> dict]
    ELSE LET step == DelimiterRange(dict, mapping, Item(delimiters, r), r, layers)
         IN  IF step.ok
             THEN Delimiters(step.dict, mapping, delimiters, r + 1, layers)
             ELSE step

\* The table get_ADC_to_Ch returns for the given imported tables (both keys
\* run to their end for the tables used below).
BuiltTable(delims, mapping) ==
    [key \in Range(Keys) |->
        Delimiters(EmptyDict, mapping[key], delims[key], 0, layers_dict[key]).dict]

(***************************************************************************)
(* Inputs of cluster_data.                                                 *)
(***************************************************************************)
\* Words the streams are made of:
\*   0x40000000  Header, module 0
\*   0x44830011  Header, module 131, with bits set outside the module field
\*   0x00000005  Data, channel 0, adc 5
\*   0x04028009  Data, channel 2, adc 9, with the DataEvent sub-signature
\*               bit and bit 15 set
\*   0x00021000  Data, channel 2, adc 4096
\*   0x00080006  Data, channel 8, adc 6
\*   0x000C0003  Data, channel 12, adc 3
\*   0xC0000007  EoE, timestamp 7
\*   0xE0010009  EoE, timestamp 0x20010009
\*   0x80000000  a word of signature 0b10
Words ==
    { <<Pow2(14), 0>>, <<Pow2(14) + Pow2(10) + 131, 17>>,
      <<0, 5>>, <<Pow2(10) + 2, Pow2(15) + 9>>, <<2, 4096>>,
      <<8, 6>>, <<12, 3>>,
      <<3 * Pow2(14), 7>>, <<3 * Pow2(14) + Pow2(13) + 1, 9>>,
      <<2 * Pow2(14), 0>> }

\* Calibration tables get_ADC_to_Ch can return.  "full": Wires covered by
\* the single range (0, 4096), Grids without ranges.  "over": a Wires range
\* that runs past the 4096 slots, a Grids range covering 0..11.
ChannelIds(n, first) == [p \in 1..n |-> first + p - 1]

CalTables ==
    [full |-> BuiltTable([Wires |-> <<(<<0, 4096>>)>>, Grids |-> <<>>],
                         [Wires |-> ChannelIds(16, 10), Grids |-> <<>>]),
     over |-> BuiltTable([Wires |-> <<(<<4000, 4160>>)>>, Grids |-> <<(<<0, 12>>)>>],
                         [Wires |-> ChannelIds(16, 10), Grids |-> ChannelIds(12, 30)])]

(***************************************************************************)
(* cluster_data (cluster.py lines 51-140).                                 *)
(***************************************************************************)
CalIdle ==
    /\ lengths = None
    /\ delimiters_table = None
    /\ channel_mapping = None
    /\ ADC_to_Ch = None
    /\ keyPos = 0
    /\ rangePos = 0
    /\ pcCal = "idle"

\* The state on entry to the loop of line 108.  The tuple data is an input
\* of size words; the word at each position is drawn from Words when the
\* loop reads it, and data holds the words read so far.
Init ==
    /\ size \in 0..MaxLen                               \* line 84
    /\ data = <<>>
    /\ window \in BOOLEAN
    /\ calib \in DOMAIN CalTables
    /\ events = NewEvents(window, size)                 \* lines 95-101
    /\ isOpen = FALSE                                   \* line 105
    /\ index = 0                                        \* line 106
    /\ i = 0
    /\ events_df = None
    /\ pc = "loop"
    /\ CalIdle

\* The loop of line 108 reads word as the next element of data.
Read(word) ==
    /\ pc = "loop"
    /\ i < size
    /\ word \in Words
    /\ data' = Append(data, word)
    /\ UNCHANGED <<size, window, calib, calVars>>

Raise ==
    /\ pc' = "failed"
    /\ UNCHANGED <<i, isOpen, index, events_df>>

Continue ==
    /\ pc' = pc
    /\ i' = i + 1
    /\ UNCHANGED events_df

\* Lines 109-114.
HeaderWord(word) ==
    /\ Read(word)
    /\ SignatureMask(word) = Header
    /\ LET Module == Value(ShiftRight(ModuleMask(word), ModuleShift))
       IN  IF InBounds(events["Module"], index)
           THEN /\ events' = SetItem(events, "Module", index, Module)
                /\ isOpen' = TRUE
                /\ UNCHANGED index
                /\ Continue
           ELSE /\ UNCHANGED events
                /\ Raise

\* The events dict after lines 117-127, and whether they ran to their end.
DataEvent(ev, w, idx, attrs, table) ==
    LET ADC == Value(ADCMask(w))
        Channel == Value(ShiftRight(ChannelMask(w), ChannelShift))
    IN  IF ~InBounds(attrs, Channel)                        \* line 119
        THEN [ok |-> FALSE, events |-> ev]
        ELSE
        LET attribute == Item(attrs, Channel)
            first == FirstChars(attribute, 1)
            channel_attribute == FirstChars(attribute, 3) \o LastChars(attribute, 2)
        IN  IF ~InBounds(ev[attribute], idx)                \* line 120
            THEN [ok |-> FALSE, events |-> ev]
            ELSE
            LET ev1 == SetItem(ev, attribute, idx, ADC)
            IN  IF first \notin DOMAIN wires_or_grids       \* line 122
                THEN [ok |-> FALSE, events |-> ev1]
                ELSE IF Len(attribute) # 8                  \* line 124
                THEN [ok |-> TRUE, events |-> ev1]
                ELSE IF ~HasKey(table[wires_or_grids[first]], ADC)         \* line 125
                THEN [ok |-> FALSE, events |-> ev1]
                ELSE IF channel_attribute \notin DOMAIN ev1 \* line 127
                THEN [ok |-> FALSE, events |-> ev1]
                ELSE [ok |-> TRUE,
                      events |-> SetItem(ev1, channel_attribute, idx,
                                         DictGet(table[wires_or_grids[first]], ADC))]

\* Lines 115-127.
DataWord(word) ==
    /\ Read(word)
    /\ SignatureMask(word) # Header
    /\ SignatureMask(word) = Data /\ isOpen
    /\ LET step == DataEvent(events, word, index, attributes(window), CalTables[calib])
       IN  /\ events' = step.events
           /\ IF step.ok
              THEN Continue /\ UNCHANGED <<isOpen, index>>
              ELSE Raise

\* Variant: an EoE word commits a row whether or not an event is open.
EoEWordWhileClosed(word) ==
    /\ Read(word)
    /\ SignatureMask(word) # Header
    /\ ~(SignatureMask(word) = Data /\ isOpen)
    /\ SignatureMask(word) = EoE
    /\ InBounds(events["ToF"], index)
    /\ events' = SetItem(events, "ToF", index, Value(TimeStampMask(word)))
    /\ isOpen' = FALSE
    /\ index' = index + 1
    /\ Continue

\* Variant: the row index is advanced by two.
EoEWordSkipsRow(word) ==
    /\ Read(word)
    /\ SignatureMask(word) # Header
    /\ ~(SignatureMask(word) = Data /\ isOpen)
    /\ SignatureMask(word) = EoE /\ isOpen
    /\ IF InBounds(events["ToF"], index)
       THEN /\ events' = SetItem(events, "ToF", index, Value(TimeStampMask(word)))
            /\ isOpen' = FALSE
            /\ index' = index + 2
            /\ Continue
       ELSE /\ UNCHANGED events
            /\ Raise

\* Variant: the row index is not advanced, the next event reuses the row.
EoEWordKeepsRow(word) ==
    /\ Read(word)
    /\ SignatureMask(word) # Header
    /\ ~(SignatureMask(word) = Data /\ isOpen)
    /\ SignatureMask(word) = EoE /\ isOpen
    /\ events' = SetItem(events, "ToF", index, Value(TimeStampMask(word)))
    /\ isOpen' = FALSE
    /\ index' = index
    /\ Continue

\* Lines 128-134.
EoEWord(word) ==
    /\ Read(word)
    /\ SignatureMask(word) # Header
    /\ ~(SignatureMask(word) = Data /\ isOpen)
    /\ SignatureMask(word) = EoE /\ isOpen
    /\ LET ToF == Value(TimeStampMask(word))
       IN  IF InBounds(events["ToF"], index)
           THEN /\ events' = SetItem(events, "ToF", index, ToF)
                /\ isOpen' = FALSE
                /\ index' = index + 1
                /\ Continue
           ELSE /\ UNCHANGED events
                /\ Raise

\* Variant: an EoE word read while closed re-stamps the last committed row.
NoBranchRestamps(word) ==
    /\ Read(word)
    /\ SignatureMask(word) # Header
    /\ ~(SignatureMask(word) = Data /\ isOpen)
    /\ ~(SignatureMask(word) = EoE /\ isOpen)
    /\ Continue
    /\ events' = IF SignatureMask(word) = EoE /\ index > 0
                 THEN SetItem(events, "ToF", index - 1, Value(TimeStampMask(word)))
                 ELSE events
    /\ UNCHANGED <<isOpen, index>>

\* Variant: a word no branch takes closes the open event.
NoBranchClosing(word) ==
    /\ Read(word)
    /\ SignatureMask(word) # Header
    /\ ~(SignatureMask(word) = Data /\ isOpen)
    /\ ~(SignatureMask(word) = EoE /\ isOpen)
    /\ Continue
    /\ isOpen' = FALSE
    /\ UNCHANGED <<events, index>>

\* A word none of the three branches of lines 109-134 takes.
NoBranch(word) ==
    /\ Read(word)
    /\ SignatureMask(word) # Header
    /\ ~(SignatureMask(word) = Data /\ isOpen)
    /\ ~(SignatureMask(word) = EoE /\ isOpen)
    /\ Continue
    /\ UNCHANGED <<events, isOpen, index>>

\* Variant: an event still open at the end of the stream is returned too.
ReturnOpenEvent ==
    /\ pc = "loop"
    /\ i = size
    /\ events' = [c \in DOMAIN events |->
                    Prefix(events[c], IF isOpen THEN index + 1 ELSE index)]
    /\ events_df' = events'
    /\ pc' = "done"
    /\ UNCHANGED <<i, isOpen, index>>
    /\ UNCHANGED <<size, data, window, calib, calVars>>

\* Lines 136-140.
Return ==
    /\ pc = "loop"
    /\ i = size
    /\ events' = [key \in DOMAIN events |-> Prefix(events[key], index)]
    /\ events_df' = events'
    /\ pc' = "done"
    /\ UNCHANGED <<i, isOpen, index>>
    /\ UNCHANGED <<size, data, window, calib, calVars>>

Next ==
    \/ \E word \in Words : HeaderWord(word)
    \/ \E word \in Words : DataWord(word)
    \/ \E word \in Words : EoEWord(word)
    \/ \E word \in Words : NoBranch(word)
    \/ Return

Spec == Init /\ [][Next]_vars

(***************************************************************************)
(* get_ADC_to_Ch as a process (cluster.py lines 162-187): one step per     *)
(* delimiter range of the loop of line 173.                                *)
(***************************************************************************)
\* Delimiter ranges the imported table is made of: one with sub-interval
\* endpoints at halves for 16 layers, one overlapping it, one running past
\* the 4096 slots, one starting below 0.
DelimiterRanges == { <<0, 12>>, <<8, 24>>, <<4090, 4106>>, <<-4, 4>> }

\* Lengths of the imported channel mapping of a key: enough ids for
\* MaxRanges ranges, or one id short of that.
MappingLengths(k) == { MaxRanges * layers_dict[k], MaxRanges * layers_dict[k] - 1 }

FirstChannel == [Wires |-> 10, Grids |-> 100]

ClusterIdle ==
    /\ size = 0
    /\ data = <<>>
    /\ window = FALSE
    /\ calib = None
    /\ events = None
    /\ isOpen = FALSE
    /\ index = 0
    /\ i = 0
    /\ events_df = None
    /\ pc = "idle"

\* The state on entry to the loop of line 170.  The delimiter table is an
\* input of lengths[key] ranges per key; each range is drawn from
\* DelimiterRanges when the loop of line 173 reads it.
InitCal ==
    /\ lengths \in [Range(Keys) -> 0..MaxRanges]
    /\ delimiters_table = [key \in Range(Keys) |-> <<>>]             \* line 165
    /\ \E nw \in MappingLengths("Wires"), ng \in MappingLengths("Grids") :
          channel_mapping =                                          \* line 166
             [Wires |-> ChannelIds(nw, FirstChannel.Wires),
              Grids |-> ChannelIds(ng, FirstChannel.Grids)]
    /\ ADC_to_Ch = EmptyTable                                        \* lines 168-169
    /\ keyPos = 0
    /\ rangePos = 0
    /\ pcCal = "loop"
    /\ ClusterIdle

key == Item(Keys, keyPos)

\* Lines 173-186 for the next range of the current key.
NextRange(delimiter) ==
    /\ pcCal = "loop"
    /\ keyPos < Len(Keys)
    /\ rangePos < lengths[key]
    /\ delimiter \in DelimiterRanges
    /\ delimiters_table' = [delimiters_table EXCEPT ![key] = Append(@, delimiter)]
    /\ LET step == DelimiterRange(ADC_to_Ch[key], channel_mapping[key], delimiter,
                                  rangePos, layers_dict[key])
       IN  /\ ADC_to_Ch' = [ADC_to_Ch EXCEPT ![key] = step.dict]
           /\ IF step.ok
              THEN rangePos' = rangePos + 1 /\ pcCal' = pcCal
              ELSE rangePos' = rangePos /\ pcCal' = "failed"
    /\ UNCHANGED <<lengths, channel_mapping, keyPos, clusterVars>>

\* Line 170: the ranges of the current key are exhausted.
NextKey ==
    /\ pcCal = "loop"
    /\ keyPos < Len(Keys)
    /\ rangePos = lengths[key]
    /\ keyPos' = keyPos + 1
    /\ rangePos' = 0
    /\ UNCHANGED <<lengths, delimiters_table, channel_mapping, ADC_to_Ch, pcCal, clusterVars>>

\* Line 187.
ReturnTable ==
    /\ pcCal = "loop"
    /\ keyPos = Len(Keys)
    /\ pcCal' = "done"
    /\ UNCHANGED <<lengths, delimiters_table, channel_mapping, ADC_to_Ch, keyPos, rangePos,
                   clusterVars>>

NextCal ==
    \/ \E delimiter \in DelimiterRanges : NextRange(delimiter)
    \/ NextKey
    \/ ReturnTable

SpecCal == InitCal /\ [][NextCal]_vars

(***************************************************************************)
(* Reading a word stream by the word format alone, for the properties      *)
(* below: the kind of each word, which EndOfEvent words commit a row, and  *)
(* the span of words each committed row is made from.                      *)
(***************************************************************************)
Kind(w) == w[1] \div Pow2(14)          \* 0 Data, 1 Header, 2 Other, 3 EndOfEvent

IsHeaderWord(w) == Kind(w) = 1
IsDataWord(w) == Kind(w) = 0
IsEndOfEvent(w) == Kind(w) = 3

FieldModule(w) == w[1] % 256
FieldChannel(w) == w[1] % 32
FieldADC(w) == w[2] % Pow2(14)
FieldTimestamp(w) == (w[1] % Pow2(14)) * Pow2(16) + w[2]

\* An event is open when the word at position p (from 1) of s is read.
RECURSIVE OpenBefore(_, _)
OpenBefore(s, p) ==
    IF p = 1 THEN FALSE
    ELSE IF IsHeaderWord(s[p - 1]) THEN TRUE
    ELSE IF IsEndOfEvent(s[p - 1]) THEN FALSE
    ELSE OpenBefore(s, p - 1)

OpenAtEnd(s) == OpenBefore(s, Len(s) + 1)

Commits(s) == {p \in DOMAIN s : IsEndOfEvent(s[p]) /\ OpenBefore(s, p)}

KthCommit(s, k) == CHOOSE p \in Commits(s) : Cardinality({q \in Commits(s) : q <= p}) = k

Span(s, k) == (IF k = 1 THEN 1 ELSE KthCommit(s, k - 1) + 1)..KthCommit(s, k)

MaxOf(S) == CHOOSE x \in S : \A y \in S : y <= x

\* Every Header is followed by exactly one EndOfEvent before the next
\* Header, and every EndOfEvent closes a Header.
RECURSIVE WellFormedFrom(_, _, _)
WellFormedFrom(s, p, open) ==
    IF p > Len(s) THEN ~open
    ELSE IF IsHeaderWord(s[p]) THEN ~open /\ WellFormedFrom(s, p + 1, TRUE)
    ELSE IF IsEndOfEvent(s[p]) THEN open /\ WellFormedFrom(s, p + 1, FALSE)
    ELSE WellFormedFrom(s, p + 1, open)

WellFormed(s) == WellFormedFrom(s, 1, FALSE)

NumberOf(s, kind) == Cardinality({p \in DOMAIN s : Kind(s[p]) = kind})

Returned == pc = "done"

\* The returned table has n rows: every column has n entries.
HasRows(df, n) == \A c \in DOMAIN df : Len(df[c]) = n

\* C1: for a well-formed stream (Header, Data words, EndOfEvent, repeated),
\* the returned table has as many rows as the stream has EndOfEvent words.
C1_RowsEqualEndOfEvents ==
    (Returned /\ WellFormed(data)) => HasRows(events_df, NumberOf(data, 3))

C1_Witness ==
    /\ Returned
    /\ WellFormed(data)
    /\ NumberOf(data, 1) = 2
    /\ NumberOf(data, 3) = 2
    /\ HasRows(events_df, 2)

(***************************************************************************)
(* The row a span of words stands for, by the word format and the layout:  *)
(* the module of the span's last Header, the timestamp of its EndOfEvent,  *)
(* per attribute the adc of the last Data word of that channel read while  *)
(* the event was open, per channel column the calibrated channel of the    *)
(* last such Data word on the grouped attribute of that column; 0 where    *)
(* there is no such word.                                                  *)
(***************************************************************************)
ChannelColumnOf ==
    [wChADC_1 |-> "wCh_1", wChADC_2 |-> "wCh_2", wChADC_3 |-> "wCh_3",
     wChADC_4 |-> "wCh_4", gChADC_1 |-> "gCh_1", gChADC_2 |-> "gCh_2"]

GroupOf ==
    [wChADC_1 |-> "Wires", wChADC_2 |-> "Wires", wChADC_3 |-> "Wires",
     wChADC_4 |-> "Wires", gChADC_1 |-> "Grids", gChADC_2 |-> "Grids"]

Grouped == DOMAIN ChannelColumnOf

Last(s) == s[Len(s)]

\* The attribute a Data word addresses in the layout, None past its end.
AttributeOf(w, cncs) ==
    IF FieldChannel(w) < Len(attributes(cncs))
    THEN attributes(cncs)[FieldChannel(w) + 1]
    ELSE None

DataOn(s, k, cncs, attrs) ==
    {p \in Span(s, k) : /\ IsDataWord(s[p])
                        /\ OpenBefore(s, p)
                        /\ AttributeOf(s[p], cncs) \in attrs}

RowValue(s, k, cncs, cal, col) ==
    IF col = "Module"
    THEN FieldModule(s[MaxOf({p \in Span(s, k) : IsHeaderWord(s[p])})])
    ELSE IF col = "ToF"
    THEN FieldTimestamp(s[KthCommit(s, k)])
    ELSE IF col \in Range(attributes(cncs))
    THEN LET ps == DataOn(s, k, cncs, {col})
         IN  IF ps = {} THEN 0 ELSE FieldADC(s[MaxOf(ps)])
    ELSE LET ps == DataOn(s, k, cncs, {a \in Grouped : ChannelColumnOf[a] = col})
         IN  IF ps = {} THEN 0
             ELSE LET w == s[MaxOf(ps)]
                  IN  DictGet(CalTables[cal][GroupOf[AttributeOf(w, cncs)]], FieldADC(w))

\* The table of the rows the committed spans of s stand for.
IsTableOf(df, s, cncs, cal) ==
    /\ HasRows(df, Cardinality(Commits(s)))
    /\ \A col \in DOMAIN df : \A k \in 1..Cardinality(Commits(s)) :
          df[col][k] = RowValue(s, k, cncs, cal, col)

\* The stream up to its last committing EndOfEvent.
CommittedPart(s) == IF Commits(s) = {} THEN <<>> ELSE SubSeq(s, 1, MaxOf(Commits(s)))

TrailingSpan(s) == (Len(CommittedPart(s)) + 1)..Len(s)

\* C2: when the stream ends while an event is open, the returned table is
\* the table of the stream cut after its last committing EndOfEvent: one
\* row per earlier committing EndOfEvent and nothing of the trailing span.
C2_OpenEventAtEndDiscarded ==
    (Returned /\ OpenAtEnd(data)) =>
        /\ isOpen
        /\ IsTableOf(events_df, CommittedPart(data), window, calib)

C2_Witness ==
    /\ Returned
    /\ OpenAtEnd(data)
    /\ Commits(data) # {}
    /\ \E p \in TrailingSpan(data) : IsHeaderWord(data[p]) /\ FieldModule(data[p]) # 0
    /\ \E p \in TrailingSpan(data) : IsDataWord(data[p])
    /\ HasRows(events_df, 1)

\* C3: row k of the returned table carries as ToF the 30-bit timestamp of
\* the k-th EndOfEvent word read while an event was open, in stream order:
\* no row is moved, sorted or dropped as a duplicate.
C3_RowOrderIsCommitOrder ==
    Returned =>
        /\ HasRows(events_df, Cardinality(Commits(data)))
        /\ \A k \in 1..Cardinality(Commits(data)) :
              events_df["ToF"][k] = FieldTimestamp(data[KthCommit(data, k)])

C3_Witness ==
    /\ Returned
    /\ Cardinality(Commits(data)) = 2
    /\ events_df["ToF"][1] > events_df["ToF"][2]
    /\ events_df["ToF"][2] = 7

\* C4: the decode never aborts: whatever the words, the layout and the
\* calibration table, no word makes cluster_data end without returning.
C4_NeverAborts == pc # "failed"

\* A step that reads a word as the next word of the stream.
Reads(w) == pc = "loop" /\ data' = Append(data, w)

\* C5: a Data word read while an event is open whose channel is past the
\* layout's attributes is skipped: the decode goes on to the next word and
\* the open event is unchanged.
C5_BadChannelSkipped ==
    [][\A w \in Words :
          (Reads(w) /\ isOpen /\ IsDataWord(w) /\ AttributeOf(w, window) = None)
          => /\ pc' = "loop"
             /\ i' = i + 1
             /\ isOpen'
             /\ index' = index
             /\ events' = events]_vars

\* C6: a Data word on a grouped attribute with adc >= 4096, read while an
\* event is open, sets the attribute's channel column of the open row to
\* the sentinel -1, and the decode goes on.
C6_AdcPastTableIsUnmapped ==
    [][\A w \in Words :
          (Reads(w) /\ isOpen /\ IsDataWord(w) /\ AttributeOf(w, window) \in Grouped
             /\ FieldADC(w) >= Slots)
          => /\ pc' = "loop"
             /\ i' = i + 1
             /\ events'[ChannelColumnOf[AttributeOf(w, window)]][index + 1] = Unmapped]_vars

\* The scenario stream [0x40000000, 0x00000005, 0xC0000007].
Scenario == << <<Pow2(14), 0>>, <<0, 5>>, <<3 * Pow2(14), 7>> >>

ScenarioDecoded == Returned /\ data = Scenario /\ window

OneRow(df, col, v) == df[col] = <<v>>

\* C7 as stated: the scenario stream decoded with the Reduced layout yields
\* one row with module 0, timeOfFlight 7, wADC_1 = 5, wChADC_1 = the
\* calibrated Wires channel of adc 5, every other attribute 0.
C7_ScenarioAsStated ==
    ScenarioDecoded =>
        /\ HasRows(events_df, 1)
        /\ OneRow(events_df, "Module", 0)
        /\ OneRow(events_df, "ToF", 7)
        /\ OneRow(events_df, "wADC_1", 5)
        /\ OneRow(events_df, "wChADC_1", DictGet(CalTables[calib]["Wires"], 5))
        /\ \A a \in Range(attributes(TRUE)) \ {"wADC_1", "wChADC_1"} : OneRow(events_df, a, 0)

\* C7 amended: the scenario stream decoded with the Reduced layout yields
\* one row with module 0, timeOfFlight 7, wADC_1 = 5, and every other
\* attribute, wChADC_1 included, and every channel column 0, whatever the
\* calibration table.
C7_ScenarioRow ==
    ScenarioDecoded =>
        /\ DOMAIN events_df = {"Module", "ToF",
                               "wADC_1", "wADC_2", "wChADC_1", "wChADC_2",
                               "gADC_1", "gADC_2", "gChADC_1", "gChADC_2",
                               "wCh_1", "wCh_2", "gCh_1", "gCh_2"}
        /\ HasRows(events_df, 1)
        /\ OneRow(events_df, "Module", 0)
        /\ OneRow(events_df, "ToF", 7)
        /\ OneRow(events_df, "wADC_1", 5)
        /\ \A col \in DOMAIN events_df \ {"Module", "ToF", "wADC_1"} : OneRow(events_df, col, 0)

C7_Witness ==
    /\ ScenarioDecoded
    /\ OneRow(events_df, "wADC_1", 5)
    /\ DictGet(CalTables[calib]["Wires"], 5) = 10

\* The Headers of span k of s that are read while the event is open.
HeadersWhileOpen(s, k) == {p \in Span(s, k) : IsHeaderWord(s[p]) /\ OpenBefore(s, p)}

\* C8: a Header read while an event is open emits no row and changes only
\* the module of the open row, to its own 8-bit module field; the row the
\* next EndOfEvent commits has the module of the span's last Header and the
\* Data values of the whole span, before and after that Header.
C8_HeaderWhileOpen ==
    /\ [][\A w \in Words :
            (Reads(w) /\ isOpen /\ IsHeaderWord(w))
            => /\ pc' = "loop"
               /\ isOpen'
               /\ index' = index
               /\ events_df' = events_df
               /\ events' = [events EXCEPT !["Module"][index + 1] = FieldModule(w)]]_vars
    /\ [](Returned => IsTableOf(events_df, data, window, calib))

C8_Witness ==
    /\ Returned
    /\ Cardinality(Commits(data)) = 1
    /\ \E p \in HeadersWhileOpen(data, 1) :
          /\ \E q \in Span(data, 1) : q < p /\ IsHeaderWord(data[q]) /\ FieldModule(data[q]) = 0
          /\ \E q \in Span(data, 1) : q < p /\ IsDataWord(data[q]) /\ FieldChannel(data[q]) = 2
          /\ FieldModule(data[p]) = 131
    /\ window
    /\ HasRows(events_df, 1)
    /\ OneRow(events_df, "Module", 131)
    /\ OneRow(events_df, "wChADC_1", 9)
    /\ OneRow(events_df, "wCh_1", DictGet(CalTables[calib]["Wires"], 9))

(***************************************************************************)
(* The sub-intervals of a delimiter range, by the arithmetic alone:        *)
(* endpoint j of `layers` equal parts of [start, stop] is the rational     *)
(* (start * layers + j * (stop - start)) / layers.                         *)
(***************************************************************************)
Endpoint(delimiter, layers, j) ==
    <<delimiter[1] * layers + j * (delimiter[2] - delimiter[1]), layers>>

\* The integers of [round(endpoint j), round(endpoint j+1)).
SubInterval(delimiter, layers, j) ==
    {k \in round(Endpoint(delimiter, layers, j))..round(Endpoint(delimiter, layers, j + 1)) :
        k < round(Endpoint(delimiter, layers, j + 1))}

RangeInterval(delimiter, layers) ==
    UNION {SubInterval(delimiter, layers, j) : j \in 0..(layers - 1)}

Built == pcCal = "done"

\* The single range [0, 12] in 3 layers with mapping [10, 11, 12].
ExampleDict == DelimiterRange(EmptyDict, <<10, 11, 12>>, <<0, 12>>, 0, 3)

\* C9: processing delimiter range i of a group assigns, for each
\* sub-interval j, the id channelMapping[i*layers + j] to every integer of
\* [round(lower endpoint), round(upper endpoint)) and to no other raw value
\* (the upper bound is excluded); for the range [0, 12] in 3 layers with
\* mapping [10, 11, 12]: 0..3 -> 10, 4..7 -> 11, 8..11 -> 12, 12 unmapped.
C9_HalfOpenSubIntervals ==
    /\ ExampleDict.ok
    /\ \A k \in 0..3 : DictGet(ExampleDict.dict, k) = 10
    /\ \A k \in 4..7 : DictGet(ExampleDict.dict, k) = 11
    /\ \A k \in 8..11 : DictGet(ExampleDict.dict, k) = 12
    /\ DictGet(ExampleDict.dict, 12) = Unmapped
    /\ AssignedKeys(ExampleDict.dict) = 0..11
    /\ [][\A d \in DelimiterRanges :
            (/\ pcCal = "loop" /\ keyPos < Len(Keys)
             /\ delimiters_table' = [delimiters_table EXCEPT ![key] = Append(@, d)]
             /\ pcCal' = "loop")
            => LET layers == layers_dict[key]
                   old == ADC_to_Ch[key]
                   new == ADC_to_Ch'[key]
               IN  /\ \A j \in 0..(layers - 1) : \A k \in SubInterval(d, layers, j) :
                         /\ HasKey(new, k)
                         /\ DictGet(new, k) = channel_mapping[key][rangePos * layers + j + 1]
                   /\ \A k \in AssignedKeys(new) \ RangeInterval(d, layers) :
                         k \in AssignedKeys(old) /\ DictGet(new, k) = DictGet(old, k)
                   /\ AssignedKeys(old) \subseteq AssignedKeys(new)
                   /\ new.slots = old.slots
                   /\ \A other \in Range(Keys) \ {key} : ADC_to_Ch'[other] = ADC_to_Ch[other]]_vars

C9_Witness ==
    /\ Built
    /\ delimiters_table["Grids"] = << <<0, 12>> >>
    /\ delimiters_table["Wires"] = << <<0, 12>>, <<8, 24>> >>
    /\ DictGet(ADC_to_Ch["Grids"], 11) = 111
    /\ DictGet(ADC_to_Ch["Grids"], 12) = Unmapped

\* The raw values covered by a sub-interval of a range read for the group.
Covered(g) ==
    UNION {RangeInterval(delimiters_table[g][r], layers_dict[g]) :
              r \in DOMAIN delimiters_table[g]}

\* C10: in the table built, each group has an entry for every raw value of
\* 0..4095, and a raw value of 0..4095 that no sub-interval covers maps to
\* the sentinel -1.
C10_EverySlotHasEntry ==
    Built => \A g \in Range(Keys) :
                LET dict == ADC_to_Ch[g]
                    assigned == AssignedKeys(dict)
                    covered == Covered(g)
                    entry(k) == IF k \in assigned THEN dict.set[k] ELSE Unmapped
                IN  \A k \in 0..(Slots - 1) :
                       /\ HasKey(dict, k)
                       /\ entry(k) = DictGet(dict, k) \/ k \notin assigned
                       /\ entry(k) = Unmapped \/ k \in covered

C10_Witness ==
    /\ Built
    /\ delimiters_table["Wires"] = <<>>
    /\ delimiters_table["Grids"] = << <<8, 24>>, <<4090, 4106>> >>
    /\ DictGet(ADC_to_Ch["Grids"], 24) = Unmapped
    /\ DictGet(ADC_to_Ch["Grids"], 23) # Unmapped
    /\ DictGet(ADC_to_Ch["Grids"], 4095) # Unmapped
    /\ DictGet(ADC_to_Ch["Wires"], 4095) = Unmapped

(***************************************************************************)
(* Rounding by distance: the integers nearest to the rational q (two of    *)
(* them at a tie), and the two ways of settling a tie.                     *)
(***************************************************************************)
Abs(x) == IF x < 0 THEN -x ELSE x

Nearest(q) ==
    LET cands == (q[1] \div q[2])..(q[1] \div q[2] + 1)
    IN  {z \in cands : \A y \in cands : Abs(q[1] - z * q[2]) <= Abs(q[1] - y * q[2])}

IsTie(q) == Cardinality(Nearest(q)) = 2

TieAwayFromZero(q) == CHOOSE z \in Nearest(q) : \A y \in Nearest(q) : Abs(z) >= Abs(y)

TieToEven(q) == CHOOSE z \in Nearest(q) : ~IsTie(q) \/ z % 2 = 0

\* A step of the builder that reads d as the next range of the current
\* group and runs the range to its end.
RangeStep(d) ==
    /\ pcCal = "loop" /\ keyPos < Len(Keys)
    /\ delimiters_table' = [delimiters_table EXCEPT ![key] = Append(@, d)]
    /\ pcCal' = "loop"

\* The raw values that map to the channel id of sub-interval j of range
\* rangePos after the step.
MappedToSubInterval(j) ==
    LET new == ADC_to_Ch'[key]
        channel == channel_mapping[key][rangePos * layers_dict[key] + j + 1]
    IN  {k \in AssignedKeys(new) : new.set[k] = channel}

\* C11 as stated: the integer bounds [lo, hi) of every sub-interval are its
\* endpoints rounded to the nearest integer, a tie away from zero (0.5 to 1,
\* 2.5 to 3): after a range is processed, exactly the raw values of
\* [lo, hi) map to the sub-interval's channel id.
C11_TiesAwayFromZero ==
    [][\A d \in DelimiterRanges :
          RangeStep(d) =>
            \A j \in 0..(layers_dict[key] - 1) :
               MappedToSubInterval(j) =
                  {k \in TieAwayFromZero(Endpoint(d, layers_dict[key], j))
                          ..TieAwayFromZero(Endpoint(d, layers_dict[key], j + 1)) :
                      k < TieAwayFromZero(Endpoint(d, layers_dict[key], j + 1))}]_vars

\* C11 amended: the integer bounds [lo, hi) of every sub-interval are its
\* endpoints rounded to the nearest integer, a tie to the even neighbour
\* (0.5 to 0, 1.5 to 2, 2.5 to 2, -0.5 to 0): after a range is processed,
\* exactly the raw values of [lo, hi) map to the sub-interval's channel id.
C11_TiesToEven ==
    [][\A d \in DelimiterRanges :
          RangeStep(d) =>
            \A j \in 0..(layers_dict[key] - 1) :
               MappedToSubInterval(j) =
                  {k \in TieToEven(Endpoint(d, layers_dict[key], j))
                          ..TieToEven(Endpoint(d, layers_dict[key], j + 1)) :
                      k < TieToEven(Endpoint(d, layers_dict[key], j + 1))}]_vars

\* The range [-4, 4] of Wires has the endpoints -0.5, 0.5, 1.5 and 2.5:
\* raw value 0 lies in sub-interval 9, [round(0.5), round(1)) = [0, 1), and
\* raw values 2 and 3 in sub-intervals 13 and 14.
C11_Witness ==
    /\ Built
    /\ delimiters_table["Wires"] = << <<-4, 4>> >>
    /\ IsTie(Endpoint(<<-4, 4>>, layers_dict["Wires"], 9))
    /\ DictGet(ADC_to_Ch["Wires"], 0) = channel_mapping["Wires"][10]
    /\ DictGet(ADC_to_Ch["Wires"], 2) = channel_mapping["Wires"][14]
    /\ DictGet(ADC_to_Ch["Wires"], 3) = channel_mapping["Wires"][15]

(***************************************************************************)
(* The sub-intervals that cover a raw value, numbered in processing order: *)
(* sub-interval j of range r (both from 0) of group g has the number       *)
(* r * layers + j, which is also its position in the channel mapping.      *)
(***************************************************************************)
SubIntervals(g) ==
    [n \in 0..(Len(delimiters_table[g]) * layers_dict[g] - 1) |->
        SubInterval(delimiters_table[g][n \div layers_dict[g] + 1],
                    layers_dict[g], n % layers_dict[g])]

WritersIn(ivs, k) == {n \in DOMAIN ivs : k \in ivs[n]}

Writers(g, k) == WritersIn(SubIntervals(g), k)

\* C12: when ranges of a group (or their sub-intervals) overlap, no error
\* is raised and the last writer wins: after any number of ranges processed
\* to their end, each raw value covered by several sub-intervals maps to the
\* channel id of the one processed last (range index ascending, then
\* sub-interval index ascending); the only error a range can raise is the
\* IndexError of a channel mapping too short for it.
C12_LastWriterWins ==
    /\ [](pcCal \in {"loop", "done"} =>
            \A g \in Range(Keys) :
               LET ivs == SubIntervals(g)
               IN  \A n \in DOMAIN ivs : \A k \in ivs[n] :
                      /\ HasKey(ADC_to_Ch[g], k)
                      /\ DictGet(ADC_to_Ch[g], k) =
                            channel_mapping[g][MaxOf(WritersIn(ivs, k)) + 1])
    /\ [][pcCal' = "failed" =>
            /\ pcCal = "loop"
            /\ (rangePos + 1) * layers_dict[key] > Len(channel_mapping[key])]_vars

\* Wires ranges [8, 24] then [0, 12]: raw value 8 is covered by sub-interval
\* 0 of the first range and by sub-interval 11 of the second, and maps to
\* the id of the second.
C12_Witness ==
    /\ Built
    /\ delimiters_table["Wires"] = << <<8, 24>>, <<0, 12>> >>
    /\ Writers("Wires", 8) = {0, 27}
    /\ DictGet(ADC_to_Ch["Wires"], 8) = channel_mapping["Wires"][28]
    /\ DictGet(ADC_to_Ch["Wires"], 12) = channel_mapping["Wires"][5]

IsOther(w) == Kind(w) = 2

\* The word at position p of s is outside any event span (a Data or
\* EndOfEvent word read while no event is open) or an Other word.
Ignored(s, p) ==
    \/ IsOther(s[p])
    \/ ~OpenBefore(s, p) /\ (IsDataWord(s[p]) \/ IsEndOfEvent(s[p]))

\* C13: a Data or EndOfEvent word read while no event is open, and a word
\* of signature 0b10 read in any state, change neither the open/closed
\* state, nor the row index, nor any field of any row, and the decode goes
\* on with the next word.
C13_WordsOutsideSpanIgnored ==
    [][\A w \in Words :
          (Reads(w) /\ (IsOther(w) \/ (~isOpen /\ (IsDataWord(w) \/ IsEndOfEvent(w)))))
          => /\ isOpen' = isOpen
             /\ index' = index
             /\ events' = events
             /\ events_df' = events_df
             /\ i' = i + 1
             /\ pc' = "loop"]_vars

\* A Data or EndOfEvent word with a nonzero field read while closed, then
\* an event with an Other word inside it: one row, every attribute 0.
C13_Witness ==
    /\ Returned
    /\ Len(data) = 4
    /\ ~IsOther(data[1]) /\ Ignored(data, 1) /\ data[1][2] # 0
    /\ IsOther(data[3]) /\ OpenBefore(data, 3)
    /\ HasRows(events_df, 1)
    /\ \A a \in Range(attributes(window)) : OneRow(events_df, a, 0)
    /\ OneRow(events_df, "ToF", FieldTimestamp(data[4]))

\* The raw-value and calibrated-channel columns of the layout.
FieldColumns(cncs) == Range(attributes(cncs)) \cup Range(channels(cncs))

\* The Data words of span k that write column col: on the attribute col,
\* or on the grouped attribute whose channel column is col.
WritesTo(s, k, cncs, col) ==
    DataOn(s, k, cncs, {col} \cup {a \in Grouped : ChannelColumnOf[a] = col})

\* C14: every event starts from an all-zero field buffer: when a Header
\* opens an event from the closed state, every raw-value and channel field
\* of the row being opened is 0; and in every committed row a field for
\* which no Data word arrived inside that event's span is 0.
C14_EventStartsFromZeros ==
    /\ [][\A w \in Words :
            (Reads(w) /\ ~isOpen /\ IsHeaderWord(w))
            => /\ isOpen'
               /\ index' = index
               /\ \A col \in FieldColumns(window) : events'[col][index' + 1] = 0]_vars
    /\ [](\A k \in 1..Cardinality(Commits(data)) : \A col \in FieldColumns(window) :
             WritesTo(data, k, window, col) = {} =>
                k <= Len(events[col]) /\ events[col][k] = 0)

\* A second event opened after a first one that carried a Data word, and
\* a Data word read while closed before the first: the row being opened is
\* all zeros, the first row is not.
C14_Witness ==
    /\ pc = "loop"
    /\ Len(data) = 4
    /\ isOpen
    /\ index = 1
    /\ IsHeaderWord(data[4]) /\ ~OpenBefore(data, 4)
    /\ \E col \in FieldColumns(window) : events[col][1] # 0
    /\ \A col \in FieldColumns(window) : events[col][2] = 0

\* The columns a Data word on attribute a may write: a itself and, for a
\* grouped attribute, its channel column.
ColumnsOf(a) == {a} \cup (IF a \in Grouped THEN {ChannelColumnOf[a]} ELSE {})

\* C15: a Data word with a valid channel read while an event is open sets
\* the raw field attributes[channel] of the open row to adc = word & 0x3FFF,
\* whatever the field held before, and changes no other raw field, no
\* channel column but the one of that attribute, no module, no
\* time-of-flight, no other row, and neither the row index nor the open
\* state.
C15_DataSetsItsField ==
    [][\A w \in Words :
          (Reads(w) /\ isOpen /\ IsDataWord(w) /\ AttributeOf(w, window) # None)
          => LET a == AttributeOf(w, window)
             IN  /\ events'[a][index + 1] = FieldADC(w)
                 /\ \A col \in DOMAIN events : \A r \in DOMAIN events[col] :
                       (col \notin ColumnsOf(a) \/ r # index + 1)
                       => events'[col][r] = events[col][r]
                 /\ DOMAIN events' = DOMAIN events
                 /\ index' = index
                 /\ isOpen']_vars

\* Two Data words on channel 2 in one event, adc 9 then adc 4096: the row
\* holds the later one.
C15_Witness ==
    /\ Returned
    /\ window
    /\ Len(data) = 4
    /\ IsHeaderWord(data[1])
    /\ IsDataWord(data[2]) /\ FieldChannel(data[2]) = 2 /\ FieldADC(data[2]) = 9
    /\ IsDataWord(data[3]) /\ FieldChannel(data[3]) = 2 /\ FieldADC(data[3]) = 4096
    /\ OneRow(events_df, "wChADC_1", 4096)
    /\ OneRow(events_df, "wADC_1", 0)

\* The channel column named after attribute a: its prefix letter, "Ch_",
\* and its index k.
ColumnNamedAfter(a) == SubSeq(a, 1, 1) \o "Ch_" \o SubSeq(a, Len(a), Len(a))

GroupNamedBy(a) == IF SubSeq(a, 1, 1) = "w" THEN "Wires" ELSE "Grids"

\* C16: in both layouts a Data word writes a channel column exactly when
\* its attribute has an 8-character name (wChADC_k, gChADC_k): for an adc
\* with an entry in the calibration table it sets the column wCh_k or gCh_k
\* of the same letter and index to CalibrationTable[Wires for 'w', Grids
\* for 'g'][adc] and leaves every other channel column alone; on a
\* 6-character attribute it leaves every channel column alone.  Each channel
\* column of a layout is the target of exactly one attribute of the layout.
C16_GroupedAttributesWriteChannel ==
    /\ \A cncs \in BOOLEAN : \A c \in Range(channels(cncs)) :
          Cardinality({p \in DOMAIN attributes(cncs) :
                         /\ Len(attributes(cncs)[p]) = 8
                         /\ ColumnNamedAfter(attributes(cncs)[p]) = c}) = 1
    /\ \A cncs \in BOOLEAN : \A p \in DOMAIN attributes(cncs) :
          /\ Len(attributes(cncs)[p]) \in {6, 8}
          /\ Len(attributes(cncs)[p]) = 8 =>
                ColumnNamedAfter(attributes(cncs)[p]) \in Range(channels(cncs))
    /\ [][\A w \in Words :
            (Reads(w) /\ isOpen /\ IsDataWord(w) /\ AttributeOf(w, window) # None)
            => LET a == AttributeOf(w, window)
                   table == CalTables[calib][GroupNamedBy(a)]
                   written == {c \in Range(channels(window)) : events'[c] # events[c]}
               IN  /\ Len(a) = 6 => written = {}
                   /\ (Len(a) = 8 /\ HasKey(table, FieldADC(w))) =>
                        /\ events'[ColumnNamedAfter(a)][index + 1] = DictGet(table, FieldADC(w))
                        /\ written \subseteq {ColumnNamedAfter(a)}]_vars

\* Full layout, Grids range [0, 12]: a Data word on gADC_1 (adc 5) and one
\* on gChADC_1 (adc 9) in one event; only the second writes a channel
\* column, gCh_1, with the Grids channel of adc 9.
C16_Witness ==
    /\ Returned
    /\ ~window
    /\ calib = "over"
    /\ HasRows(events_df, 1)
    /\ OneRow(events_df, "gADC_1", 5)
    /\ OneRow(events_df, "gChADC_1", 9)
    /\ OneRow(events_df, "gCh_1", 39)
    /\ DictGet(CalTables[calib]["Wires"], 9) # 39
    /\ \A c \in Range(channels(window)) \ {"gCh_1"} : OneRow(events_df, c, 0)

\* C17: a committed event is never revisited: no step of the decode, be it
\* a Header, Data, EndOfEvent or other word or the final truncation, changes
\* any field of a row below the row index, so a row keeps in the returned
\* table the values it had when its EndOfEvent committed it.
C17_CommittedRowsKept ==
    [][/\ DOMAIN events' = DOMAIN events
       /\ index' >= index
       /\ \A col \in DOMAIN events : \A k \in 1..index :
             /\ k <= Len(events'[col])
             /\ events'[col][k] = events[col][k]]_vars

\* Header (module 0), EndOfEvent (timestamp 7), then a Header of module 131
\* and a Data word: the row committed by the second word is returned as it
\* was.
C17_Witness ==
    /\ Returned
    /\ Len(data) = 4
    /\ Commits(data) = {2}
    /\ IsHeaderWord(data[3]) /\ FieldModule(data[3]) = 131
    /\ IsDataWord(data[4]) /\ AttributeOf(data[4], window) # None
    /\ HasRows(events_df, 1)
    /\ OneRow(events_df, "Module", 0)
    /\ OneRow(events_df, "ToF", 7)
    /\ \A col \in FieldColumns(window) : OneRow(events_df, col, 0)

\* The EndOfEvent words of s that have a Header before them with no
\* EndOfEvent in between.
ClosingEndOfEvents(s) ==
    {p \in DOMAIN s :
        /\ IsEndOfEvent(s[p])
        /\ \E q \in 1..(p - 1) :
              /\ IsHeaderWord(s[q])
              /\ \A r \in (q + 1)..(p - 1) : ~IsEndOfEvent(s[r])}

\* C18: for any word stream the number of rows returned is the number of
\* EndOfEvent words preceded, since the previous committing EndOfEvent or
\* the start of the stream, by a Header; it exceeds neither the number of
\* Header words nor the number of EndOfEvent words.
C18_RowsEqualClosedSpans ==
    /\ pc \in {"loop", "done"} => index = Cardinality(ClosingEndOfEvents(data))
    /\ Returned =>
          /\ HasRows(events_df, Cardinality(ClosingEndOfEvents(data)))
          /\ ClosingEndOfEvents(data) = Commits(data)
          /\ \A c \in DOMAIN events_df : Len(events_df[c]) <= NumberOf(data, 1)
          /\ \A c \in DOMAIN events_df : Len(events_df[c]) <= NumberOf(data, 3)

\* Two Headers in a row, then two EndOfEvents in a row: one row.
C18_Witness ==
    /\ Returned
    /\ Len(data) = 4
    /\ IsHeaderWord(data[1]) /\ IsHeaderWord(data[2])
    /\ IsEndOfEvent(data[3]) /\ IsEndOfEvent(data[4])
    /\ HasRows(events_df, 1)
    /\ ~WellFormed(data)

\* The word w is one whose branch writes at position index.
WritesAtIndex(w) == IsHeaderWord(w) \/ (isOpen /\ (IsDataWord(w) \/ IsEndOfEvent(w)))

\* C19: the write index stays inside the pre-allocated arrays: after n
\* processed words index <= n / 2, every array keeps len(data) entries
\* during the loop, so whenever a Header, Data or EndOfEvent word writes at
\* position index, index < len(data); and the final truncation [0:index]
\* keeps exactly the committed rows.
C19_IndexInsideArrays ==
    /\ [](pc \in {"loop", "done", "failed"} =>
            /\ 2 * index <= i
            /\ i <= size
            /\ pc # "done" => \A col \in DOMAIN events : Len(events[col]) = size)
    /\ [][\A w \in Words :
            (Reads(w) /\ WritesAtIndex(w))
            => /\ index < size
               /\ \A col \in DOMAIN events : index + 1 \in DOMAIN events[col]]_vars
    /\ [](Returned =>
            /\ HasRows(events_df, index)
            /\ index = Cardinality(Commits(data))
            /\ \A col \in DOMAIN events_df : \A k \in 1..index :
                  events_df[col][k] = RowValue(data, k, window, calib, col))

\* The bound is met: four words, two rows, the second written at index 1.
C19_Witness ==
    /\ Returned
    /\ size = 4
    /\ 2 * index = size
    /\ HasRows(events_df, 2)
    /\ events_df["Module"][2] = 131
    /\ events_df["ToF"][2] # 0

\* C20: the table built keeps exactly 4096 slots per group: whatever the
\* delimiter ranges, the raw values with an entry in a group's dict are
\* exactly 0..4095, none below 0 and none from 4096 on.
C20_ExactlySlots ==
    Built => \A g \in Range(Keys) :
                /\ \A k \in 0..(Slots - 1) : HasKey(ADC_to_Ch[g], k)
                /\ \A k \in AssignedKeys(ADC_to_Ch[g]) : 0 <= k /\ k < Slots
====
